---- MODULE Spec2Model ----
(***************************************************************************)
(* The chess AI of thunopro/chess-ai: the three move pickers and the       *)
(* evaluator of the background worker (src/engine/ai.worker.ts, kept here  *)
(* as src/unnamed/part_000), their foreground copies in src/App.tsx, and   *)
(* the coordinator of App.tsx that posts requests to the worker, arms the  *)
(* 2.5 s timer and falls back to the foreground copies.                    *)
(*                                                                         *)
(* chess.js is an external library.  It is stood for by a family of        *)
(* bounded game trees: a position is numbered by the moves that led to it  *)
(* from the start position, and everything chess.js answers about a        *)
(* position (the board, the legal moves, check, the draw conditions) is a  *)
(* fixed function of that number and of the variable seed, which selects   *)
(* the tree.                                                               *)
(***************************************************************************)
EXTENDS Integers, Sequences, FiniteSets, TLC

VARIABLES
    seed,           \* which game tree chess.js plays in
    \* ---- App.tsx, the coordinator ----
    gameRef,        \* gameRef.current: the authoritative Chess object
    thinkingRef,    \* thinkingRef.current
    isThinking,     \* the isThinking state
    workerRef,      \* workerRef.current: "worker" or "null"
    reqIdRef,       \* reqIdRef.current
    playVsAI, aiPlays, aiMode, depth,   \* the settings
    timers,         \* the pending setTimeout callbacks
    toWorker,       \* requests posted to the worker, not yet handled
    toMain,         \* responses posted by the worker, not yet handled
    workerErr,      \* error events of the worker, not yet handled
    log,            \* history: the last step of the coordinator, the requests
                    \* whose response was accepted, those a timer fell back
                    \* for, the number of inputs of the user, the position
                    \* each request was posted with
    \* ---- one strategy invocation on a given position ----
    pin,            \* the invocation: game, mode, depth, aiColor
    pw,             \* what the worker's picker returned
    pf,             \* what the foreground picker returned
    \* ---- one evaluation on given facts ----
    efacts,         \* what chess.js answers about the evaluated position
    ew,             \* what the worker's evaluate returned
    ef              \* what the foreground evaluate returned

coordVars == <<gameRef, thinkingRef, isThinking, workerRef, reqIdRef, playVsAI,
               aiPlays, aiMode, depth, timers, toWorker, toMain, workerErr, log>>
pickVars == <<pin, pw, pf>>
evalVars == <<efacts, ew, ef>>
vars == <<seed, coordVars, pickVars, evalVars>>

----------------------------------------------------------------------------
(* Bounds of the model. *)

MaxSeed == 15       \* game trees 0..MaxSeed
MaxMoves == 3       \* legal moves of a position
MaxPly == 4         \* a game ends (mate or stalemate) after at most MaxPly plies
MaxDepth == 3       \* depthLimit of a strategy invocation is 1..MaxDepth
NumSquares == 3     \* squares of the board
MaxLegal == 32      \* legal-move counts given to one evaluation
MaxGames == 1       \* the coordinator plays in the game trees 0..MaxGames
MaxInputs == 2      \* inputs of the user (drops, new games, settings) in one run

Seeds == 0 .. MaxSeed

----------------------------------------------------------------------------
(* Numbers.  TLC's integers are 32 bits wide; every score of the program   *)
(* is within 10^9 + 1000 in absolute value, so none overflows.  Infinity   *)
(* and the -1e15 of the greedy picker do not fit: each is stood for by the *)
(* extreme 32-bit value, which keeps its order against every score.        *)

Infinity == 2147483647
NegSentinel == -2147483647
MATE == 1000000000
MobilityCap == 30
CheckPenalty == 15
CheckBonus == 5
DeadlineMs == 2500

(* F applied to the value of e: a local constant of the code, evaluated    *)
(* once where the code assigns it.                                         *)
Bind(e, F(_)) == CHOOSE r \in { F(x) : x \in {e} } : TRUE

Max(a, b) == Bind(<<a, b>>, LAMBDA x : IF x[1] >= x[2] THEN x[1] ELSE x[2])
Min(a, b) == Bind(<<a, b>>, LAMBDA x : IF x[1] <= x[2] THEN x[1] ELSE x[2])

VAL == [p |-> 100, n |-> 320, b |-> 330, r |-> 500, q |-> 900, k |-> 0]
VALMain == [p |-> 100, n |-> 320, b |-> 330, r |-> 500, q |-> 900, k |-> 0]

null == [none |-> TRUE]

----------------------------------------------------------------------------
(* chess.js.  A position is a number: the start position is 0 and the     *)
(* position after the i-th legal move of position n is n*(MaxMoves+1)+i,   *)
(* so a position's digits are the moves that led to it.  Everything        *)
(* chess.js answers about the positions of tree s is tabulated once, in    *)
(* Trees.  A Chess object is [node, stack]: node is the position, stack    *)
(* holds the positions undo() goes back to, oldest first.                  *)

PieceTypes == <<"p", "n", "b", "r", "q", "k">>
PromotionTypes == <<"q", "n">>

RECURSIVE Power(_, _)
Power(b, e) == IF e = 0 THEN 1 ELSE b * Power(b, e - 1)

LastNode == Power(MaxMoves + 1, MaxPly) - 1

RECURSIVE PlyOf(_)
PlyOf(n) == IF n = 0 THEN 0 ELSE 1 + PlyOf(n \div (MaxMoves + 1))

Child(n, i) == n * (MaxMoves + 1) + i

(* The k-th fact about position n in tree s, a number in 0..m-1. *)
Mix(s, n, k, m) ==
    ((s * 31 + (n % 4001) * 17 + k * 13 + s * (n % 4001) * 7 + (n % 4001) * (n % 4001) * 3
      + s * k * 5 + (n % 4001) * k * 19 + 11) % 1009) % m

(* The trees after MaxSeed are games with a mate in one at the start: the  *)
(* move MateMove(s) mates, no other first move does, and when Decoy(s) is  *)
(* another first move, every reply to it allows a mate by the next move.   *)
MateSeeds == (MaxSeed + 1) .. (MaxSeed + MaxMoves * (MaxMoves + 1))
MateMove(s) == ((s - MaxSeed - 1) % MaxMoves) + 1
Decoy(s) ==
    IF (s - MaxSeed - 1) \div MaxMoves = MateMove(s) THEN 0
    ELSE (s - MaxSeed - 1) \div MaxMoves

(* What such a tree fixes of position n: "full" (every move is legal),     *)
(* "mate" (checkmate), "nomate" (not checkmate), "live" (the game goes     *)
(* on); "any" where the tree fixes nothing.                                *)
Shape(s, n) ==
    IF s <= MaxSeed THEN "any"
    ELSE IF n = 0 THEN "full"
    ELSE IF n <= MaxMoves
    THEN (IF n = MateMove(s) THEN "mate" ELSE IF n = Decoy(s) THEN "live" ELSE "nomate")
    ELSE IF Decoy(s) = 0 THEN "any"
    ELSE IF n \div (MaxMoves + 1) = Decoy(s) THEN "live"
    ELSE IF /\ n \div ((MaxMoves + 1) * (MaxMoves + 1)) = Decoy(s)
            /\ n % (MaxMoves + 1) = 1 THEN "mate"
    ELSE "any"

NumMoves(s, n) ==
    IF PlyOf(n) >= MaxPly \/ Shape(s, n) = "mate" THEN 0
    ELSE IF Shape(s, n) = "full" THEN MaxMoves
    ELSE Bind(Mix(s, n, 1, 3 * MaxMoves + 1), LAMBDA r :
           IF r = 0 THEN (IF Shape(s, n) = "live" THEN 1 ELSE 0)
           ELSE ((r - 1) % MaxMoves) + 1)

InCheckAt(s, n) ==
    IF Shape(s, n) = "mate" THEN TRUE
    ELSE IF Shape(s, n) = "nomate" /\ NumMoves(s, n) = 0 THEN FALSE
    ELSE Mix(s, n, 2, 3) = 0

(* Whether the tree lets position n be a draw by the k-th draw rule. *)
MayDraw(s, n, k, m) == Shape(s, n) \in {"any", "nomate"} /\ Mix(s, n, k, m) = 0
CheckmateAt(s, n) == InCheckAt(s, n) /\ NumMoves(s, n) = 0

(* A square holds a piece [type, color] or is empty. *)
SquareAt(s, n, i) ==
    Bind(Mix(s, n, 10 + i, 20), LAMBDA r :
      IF r < 6 THEN [type |-> PieceTypes[r + 1], color |-> "w"]
      ELSE IF r < 12 THEN [type |-> PieceTypes[r - 5], color |-> "b"]
      ELSE [type |-> "empty", color |-> "-"])

RECURSIVE BoardUpTo(_, _, _)
BoardUpTo(s, n, k) ==
    IF k = 0 THEN <<>> ELSE Append(BoardUpTo(s, n, k - 1), SquareAt(s, n, k))

(* The i-th legal move of n, verbose: moves 2j-1 and 2j leave the same     *)
(* square, and are the two promotions of one pawn move when the tree says  *)
(* so; san ends with "#" when the move mates and with "+" when it checks.  *)
VerboseMove(s, n, i) ==
    Bind(<<Mix(s, n, 30 + (i + 1) \div 2, 4) = 0, Mix(s, n, 40 + i, 8),
           Mix(s, n, 50 + i, 6), Child(n, i)>>, LAMBDA x :
      [ from |-> Mix(s, n, 20 + (i + 1) \div 2, NumSquares) + 1,
        to |-> IF x[1] THEN (i + 1) \div 2 ELSE MaxMoves + i,
        piece |-> IF x[1] THEN "p" ELSE PieceTypes[x[3] + 1],
        captured |-> IF x[2] < 5 THEN PieceTypes[x[2] + 1] ELSE "none",
        promotion |-> IF x[1] THEN PromotionTypes[2 - (i % 2)] ELSE "none",
        san |-> (IF x[2] < 5 THEN <<"x">> ELSE <<>>)
                  \o (IF CheckmateAt(s, x[4]) THEN <<"#">>
                      ELSE IF InCheckAt(s, x[4]) THEN <<"+">> ELSE <<>>) ])

RECURSIVE MovesUpTo(_, _, _)
MovesUpTo(s, n, k) ==
    IF k = 0 THEN <<>> ELSE Append(MovesUpTo(s, n, k - 1), VerboseMove(s, n, k))

(* What chess.js knows about position n of tree s. *)
Facts(s, n) ==
    [ turn |-> IF PlyOf(n) % 2 = 0 THEN "w" ELSE "b",
      moves |-> MovesUpTo(s, n, NumMoves(s, n)),
      inCheck |-> InCheckAt(s, n),
      fifty |-> MayDraw(s, n, 3, 7),
      insufficient |-> MayDraw(s, n, 4, 7),
      repeated |-> MayDraw(s, n, 5, 2),
      board |-> BoardUpTo(s, n, NumSquares) ]

(* Whether the number n is a position of tree s: each of its digits is a   *)
(* legal move of the position before it.                                   *)
RECURSIVE IsPosition(_, _)
IsPosition(s, n) ==
    \/ n = 0
    \/ /\ n % (MaxMoves + 1) \in 1 .. NumMoves(s, n \div (MaxMoves + 1))
       /\ IsPosition(s, n \div (MaxMoves + 1))

NoPosition == [turn |-> "-", moves |-> <<>>]

RECURSIVE TreeOf(_, _, _)
TreeOf(s, lo, hi) ==
    IF lo > hi THEN <<>>
    ELSE IF lo = hi THEN <<IF IsPosition(s, lo) THEN Facts(s, lo) ELSE NoPosition>>
    ELSE TreeOf(s, lo, (lo + hi) \div 2) \o TreeOf(s, (lo + hi) \div 2 + 1, hi)

RECURSIVE TreesUpTo(_)
TreesUpTo(s) ==
    IF s < 0 THEN <<>> ELSE Append(TreesUpTo(s - 1), TreeOf(s, 0, LastNode))

Trees == TreesUpTo(MaxSeed + MaxMoves * (MaxMoves + 1))

At(n) == Trees[seed + 1][n + 1]

NewGame == [node |-> 0, stack |-> <<>>]
Fen(g) == g.node
Load(fen) == [node |-> fen, stack |-> <<>>]

moves(g) == At(g.node).moves
movesLength(g) == Len(At(g.node).moves)
turn(g) == At(g.node).turn
board(g) == At(g.node).board
inCheck(g) == At(g.node).inCheck
isCheckmate(g) == At(g.node).inCheck /\ Len(At(g.node).moves) = 0
isStalemate(g) == ~At(g.node).inCheck /\ Len(At(g.node).moves) = 0
isInsufficientMaterial(g) == At(g.node).insufficient
RepetitionPlies == 8
isThreefoldRepetition(g) == Len(g.stack) >= RepetitionPlies /\ At(g.node).repeated
isDraw(g) ==
    \/ At(g.node).fifty
    \/ isStalemate(g)
    \/ isInsufficientMaterial(g)
    \/ isThreefoldRepetition(g)
isGameOver(g) == isCheckmate(g) \/ isStalemate(g) \/ isDraw(g)

(* move(): the first legal move with the given from and to, and with the   *)
(* given promotion when the legal move is a promotion.                     *)
MatchOf(g, mo) ==
    Bind(moves(g), LAMBDA ms :
      { i \in 1 .. Len(ms) :
          /\ ms[i].from = mo.from /\ ms[i].to = mo.to
          /\ \/ ms[i].promotion = "none"
             \/ "promotion" \in DOMAIN mo /\ ms[i].promotion = mo.promotion })

MoveOk(g, mo) == MatchOf(g, mo) # {}

(* A move that is not legal leaves the game as it is (move() answers null). *)
move(g, mo) ==
    Bind(MatchOf(g, mo), LAMBDA match :
      IF match = {} THEN g
      ELSE [node |-> Child(g.node, CHOOSE x \in match : \A y \in match : x <= y),
            stack |-> Append(g.stack, g.node)])

undo(g) ==
    IF g.stack = <<>> THEN g
    ELSE [node |-> g.stack[Len(g.stack)],
          stack |-> SubSeq(g.stack, 1, Len(g.stack) - 1)]

Includes(san, ch) == \E i \in DOMAIN san : san[i] = ch

----------------------------------------------------------------------------
(* What evaluate asks chess.js about a game. *)

Ask(g) ==
    [ board |-> board(g),
      turn |-> turn(g),
      legal |-> movesLength(g),
      inCheck |-> inCheck(g),
      isCheckmate |-> isCheckmate(g),
      isDraw |-> isDraw(g),
      isStalemate |-> isStalemate(g),
      isInsufficientMaterial |-> isInsufficientMaterial(g),
      isThreefoldRepetition |-> isThreefoldRepetition(g) ]

----------------------------------------------------------------------------
(* The worker: src/engine/ai.worker.ts. *)

(* toShort without its promotion. *)
toShortNoPromotion(m) == [from |-> m.from, to |-> m.to]

toShort(m) ==
    IF m.promotion # "none"
    THEN [from |-> m.from, to |-> m.to, promotion |-> m.promotion]
    ELSE [from |-> m.from, to |-> m.to]

(* r is Math.floor(Math.random() * moves.length). *)
randomPicker(g, r) ==
    Bind(moves(g), LAMBDA ms :
      IF Len(ms) = 0 THEN null ELSE toShort(ms[r + 1]))

ValOf(t) == IF t \in DOMAIN VAL THEN VAL[t] ELSE 0

greedyScore(m) ==
    (IF m.captured # "none" THEN ValOf(m.captured) - ValOf(m.piece) + 1 ELSE 0)
    + (IF Includes(m.san, "#") THEN MATE
       ELSE IF Includes(m.san, "+") THEN CheckBonus ELSE 0)

RECURSIVE greedyLoop(_, _, _, _)
(* The loop with >= for >: the last maximum wins. *)
greedyLoopLastWins(ms, i, best, bestScore) ==
    IF i > Len(ms) THEN best
    ELSE Bind(greedyScore(ms[i]), LAMBDA s :
           IF s >= bestScore THEN greedyLoop(ms, i + 1, ms[i], s)
           ELSE greedyLoop(ms, i + 1, best, bestScore))

greedyLoop(ms, i, best, bestScore) ==
    IF i > Len(ms) THEN best
    ELSE Bind(greedyScore(ms[i]), LAMBDA s :
           IF s > bestScore THEN greedyLoop(ms, i + 1, ms[i], s)
           ELSE greedyLoop(ms, i + 1, best, bestScore))

greedyPicker(g, r) ==
    Bind(moves(g), LAMBDA ms :
      IF Len(ms) = 0 THEN null
      ELSE Bind(greedyLoop(ms, 1, null, NegSentinel), LAMBDA best :
             IF best # null THEN toShort(best) ELSE toShort(ms[r + 1])))

RECURSIVE materialLoop(_, _, _)
materialLoop(b, i, score) ==
    IF i > Len(b) THEN score
    ELSE IF b[i].type = "empty" THEN materialLoop(b, i + 1, score)
    ELSE materialLoop(b, i + 1,
             score + (IF b[i].color = "w" THEN ValOf(b[i].type) ELSE -ValOf(b[i].type)))

(* evaluate with the check term of the wrong sign. *)
evaluateCheckSign(q) ==
    LET material == materialLoop(q.board, 1, 0)
        mobile == material + (IF q.turn = "w" THEN 1 ELSE -1) * Min(q.legal, MobilityCap)
        score == IF q.inCheck
                 THEN mobile + (IF q.turn = "w" THEN CheckPenalty ELSE -CheckPenalty)
                 ELSE mobile
    IN  IF q.isCheckmate THEN (IF q.turn = "w" THEN -MATE ELSE MATE)
        ELSE IF q.isDraw \/ q.isStalemate \/ q.isInsufficientMaterial
                \/ q.isThreefoldRepetition THEN 0
        ELSE score

evaluate(q) ==
    LET material == materialLoop(q.board, 1, 0)
        mobile == material + (IF q.turn = "w" THEN 1 ELSE -1) * Min(q.legal, MobilityCap)
        score == IF q.inCheck
                 THEN mobile + (IF q.turn = "w" THEN -CheckPenalty ELSE CheckPenalty)
                 ELSE mobile
    IN  IF q.isCheckmate THEN (IF q.turn = "w" THEN -MATE ELSE MATE)
        ELSE IF q.isDraw \/ q.isStalemate \/ q.isInsufficientMaterial
                \/ q.isThreefoldRepetition THEN 0
        ELSE score

(* search returns its value, the game object as it leaves it and the number *)
(* of loops it left by break.                                              *)
RECURSIVE search(_, _, _, _), searchWhite(_, _, _, _, _, _, _, _), searchBlack(_, _, _, _, _, _, _, _)
search(g, d, alpha, beta) ==
    IF d = 0 \/ isGameOver(g) THEN [val |-> evaluate(Ask(g)), game |-> g, cuts |-> 0]
    ELSE Bind(moves(g), LAMBDA mv :
           IF Len(mv) = 0 THEN [val |-> evaluate(Ask(g)), game |-> g, cuts |-> 0]
           ELSE IF turn(g) = "w"
                THEN searchWhite(g, mv, 1, d, alpha, beta, -Infinity, 0)
                ELSE searchBlack(g, mv, 1, d, alpha, beta, Infinity, 0))

(* searchBlack with the break taken as soon as the value is below beta. *)
searchBlackEagerBreak(g, mv, i, d, alpha, beta, val, cuts) ==
    IF i > Len(mv) THEN [val |-> val, game |-> g, cuts |-> cuts]
    ELSE Bind(move(g, toShort(mv[i])), LAMBDA g1 :
         Bind(search(g1, d - 1, alpha, beta), LAMBDA child :
         Bind(undo(child.game), LAMBDA g2 :
         Bind(Min(val, child.val), LAMBDA v :
         Bind(Min(beta, v), LAMBDA b :
         Bind(cuts + child.cuts, LAMBDA c :
           IF beta >= b
           THEN [val |-> v, game |-> g2, cuts |-> IF i < Len(mv) THEN c + 1 ELSE c]
           ELSE searchBlack(g2, mv, i + 1, d, alpha, b, v, c)))))))

searchWhite(g, mv, i, d, alpha, beta, val, cuts) ==
    IF i > Len(mv) THEN [val |-> val, game |-> g, cuts |-> cuts]
    ELSE Bind(move(g, toShort(mv[i])), LAMBDA g1 :
         Bind(search(g1, d - 1, alpha, beta), LAMBDA child :
         Bind(undo(child.game), LAMBDA g2 :
         Bind(Max(val, child.val), LAMBDA v :
         Bind(Max(alpha, v), LAMBDA a :
         Bind(cuts + child.cuts, LAMBDA c :
           IF a >= beta
           THEN [val |-> v, game |-> g2, cuts |-> IF i < Len(mv) THEN c + 1 ELSE c]
           ELSE searchWhite(g2, mv, i + 1, d, a, beta, v, c)))))))

searchBlack(g, mv, i, d, alpha, beta, val, cuts) ==
    IF i > Len(mv) THEN [val |-> val, game |-> g, cuts |-> cuts]
    ELSE Bind(move(g, toShort(mv[i])), LAMBDA g1 :
         Bind(search(g1, d - 1, alpha, beta), LAMBDA child :
         Bind(undo(child.game), LAMBDA g2 :
         Bind(Min(val, child.val), LAMBDA v :
         Bind(Min(beta, v), LAMBDA b :
         Bind(cuts + child.cuts, LAMBDA c :
           IF alpha >= b
           THEN [val |-> v, game |-> g2, cuts |-> IF i < Len(mv) THEN c + 1 ELSE c]
           ELSE searchBlack(g2, mv, i + 1, d, alpha, b, v, c)))))))

(* The loop over the root moves: best, bestScore, the game object and the *)
(* breaks of the searches.                                                *)
RECURSIVE rootLoop(_, _, _, _, _, _, _, _)
rootLoop(g, root, i, depthLimit, aiIsWhite, best, bestScore, cuts) ==
    IF i > Len(root)
    THEN [best |-> best, bestScore |-> bestScore, game |-> g, cuts |-> cuts]
    ELSE Bind(move(g, toShort(root[i])), LAMBDA g1 :
         Bind(search(g1, depthLimit - 1, -Infinity, Infinity), LAMBDA r :
         Bind(undo(r.game), LAMBDA g2 :
         Bind(r.val, LAMBDA v :
         Bind(cuts + r.cuts, LAMBDA c :
           IF (IF aiIsWhite THEN v > bestScore ELSE v < bestScore)
           THEN rootLoop(g2, root, i + 1, depthLimit, aiIsWhite, root[i], v, c)
           ELSE rootLoop(g2, root, i + 1, depthLimit, aiIsWhite, best, bestScore, c))))))

(* minimaxRun answering null at the root of a game that is over. *)
minimaxRunOverIsNull(g, depthLimit, aiColor) ==
    Bind(moves(g), LAMBDA root :
      IF Len(root) = 0 \/ isGameOver(g)
      THEN [move |-> null, bestScore |-> 0, game |-> g, cuts |-> 0]
      ELSE Bind(rootLoop(g, root, 1, depthLimit, aiColor = "w", null,
                         IF aiColor = "w" THEN -Infinity ELSE Infinity, 0),
                LAMBDA out :
                  [move |-> IF out.best # null THEN toShort(out.best) ELSE null,
                   bestScore |-> out.bestScore, game |-> out.game, cuts |-> out.cuts]))

(* minimaxPick, with what it leaves behind: the move it returns, its   *)
(* bestScore, the game object and the breaks.                              *)
minimaxRun(g, depthLimit, aiColor) ==
    Bind(moves(g), LAMBDA root :
      IF Len(root) = 0
      THEN [move |-> null, bestScore |-> 0, game |-> g, cuts |-> 0]
      ELSE Bind(rootLoop(g, root, 1, depthLimit, aiColor = "w", null,
                         IF aiColor = "w" THEN -Infinity ELSE Infinity, 0),
                LAMBDA out :
                  [move |-> IF out.best # null THEN toShort(out.best) ELSE null,
                   bestScore |-> out.bestScore, game |-> out.game, cuts |-> out.cuts]))

minimaxPick(g, depthLimit, aiColor) == minimaxRun(g, depthLimit, aiColor).move

(* self.onmessage: the response to request req. *)
workerRun(req, r) ==
    LET game == Load(req.fen)
    IN  IF req.mode = "random"
        THEN [move |-> randomPicker(game, r), bestScore |-> 0, game |-> game, cuts |-> 0]
        ELSE IF req.mode = "greedy"
        THEN [move |-> greedyPicker(game, r), bestScore |-> 0, game |-> game, cuts |-> 0]
        ELSE minimaxRun(game, req.depth, req.aiColor)

workerOnMessage(req, r) == [id |-> req.id, move |-> workerRun(req, r).move]

----------------------------------------------------------------------------
(* The foreground copies: src/App.tsx, "Main-thread AI (fallback)". *)

toShortMain(m) ==
    IF m.promotion # "none"
    THEN [from |-> m.from, to |-> m.to, promotion |-> m.promotion]
    ELSE [from |-> m.from, to |-> m.to]

randomPick(g, r) ==
    Bind(moves(g), LAMBDA ms :
      IF Len(ms) = 0 THEN null ELSE toShortMain(ms[r + 1]))

ValOfMain(t) == IF t \in DOMAIN VALMain THEN VALMain[t] ELSE 0

greedyScoreMain(m) ==
    (IF m.captured # "none" THEN ValOfMain(m.captured) - ValOfMain(m.piece) + 1 ELSE 0)
    + (IF Includes(m.san, "#") THEN MATE
       ELSE IF Includes(m.san, "+") THEN CheckBonus ELSE 0)

RECURSIVE greedyLoopMain(_, _, _, _)
greedyLoopMain(ms, i, best, bestScore) ==
    IF i > Len(ms) THEN best
    ELSE Bind(greedyScoreMain(ms[i]), LAMBDA s :
           IF s > bestScore THEN greedyLoopMain(ms, i + 1, ms[i], s)
           ELSE greedyLoopMain(ms, i + 1, best, bestScore))

greedyPick(g, r) ==
    Bind(moves(g), LAMBDA ms :
      IF Len(ms) = 0 THEN null
      ELSE Bind(greedyLoopMain(ms, 1, null, NegSentinel), LAMBDA best :
             IF best # null THEN toShortMain(best) ELSE toShortMain(ms[r + 1])))

RECURSIVE materialLoopMain(_, _, _)
materialLoopMain(b, i, score) ==
    IF i > Len(b) THEN score
    ELSE IF b[i].type = "empty" THEN materialLoopMain(b, i + 1, score)
    ELSE materialLoopMain(b, i + 1,
             score + (IF b[i].color = "w" THEN ValOfMain(b[i].type)
                      ELSE -ValOfMain(b[i].type)))

(* evaluateMain without the check term. *)
evaluateMainNoCheck(q) ==
    LET material == materialLoopMain(q.board, 1, 0)
        score == material + (IF q.turn = "w" THEN 1 ELSE -1) * Min(q.legal, MobilityCap)
    IN  IF q.isCheckmate THEN (IF q.turn = "w" THEN -MATE ELSE MATE)
        ELSE IF q.isDraw \/ q.isStalemate \/ q.isInsufficientMaterial
                \/ q.isThreefoldRepetition THEN 0
        ELSE score

evaluateMain(q) ==
    LET material == materialLoopMain(q.board, 1, 0)
        mobile == material + (IF q.turn = "w" THEN 1 ELSE -1) * Min(q.legal, MobilityCap)
        score == IF q.inCheck
                 THEN mobile + (IF q.turn = "w" THEN -CheckPenalty ELSE CheckPenalty)
                 ELSE mobile
    IN  IF q.isCheckmate THEN (IF q.turn = "w" THEN -MATE ELSE MATE)
        ELSE IF q.isDraw \/ q.isStalemate \/ q.isInsufficientMaterial
                \/ q.isThreefoldRepetition THEN 0
        ELSE score

(* searchMain returns its value, the game object as it leaves it and the number *)
(* of loops it left by break.                                              *)
RECURSIVE searchMain(_, _, _, _), searchMainWhite(_, _, _, _, _, _, _, _), searchMainBlack(_, _, _, _, _, _, _, _)
(* searchMainWhite leaving the loop by break without undoing the move. *)
searchMainWhiteNoUndo(g, mv, i, d, alpha, beta, val, cuts) ==
    IF i > Len(mv) THEN [val |-> val, game |-> g, cuts |-> cuts]
    ELSE Bind(move(g, toShortMain(mv[i])), LAMBDA g1 :
         Bind(searchMain(g1, d - 1, alpha, beta), LAMBDA child :
         Bind(Max(val, child.val), LAMBDA v :
         Bind(Max(alpha, v), LAMBDA a :
         Bind(cuts + child.cuts, LAMBDA c :
           IF a >= beta
           THEN [val |-> v, game |-> child.game, cuts |-> IF i < Len(mv) THEN c + 1 ELSE c]
           ELSE searchMainWhite(undo(child.game), mv, i + 1, d, a, beta, v, c))))))

searchMain(g, d, alpha, beta) ==
    IF d = 0 \/ isGameOver(g) THEN [val |-> evaluateMain(Ask(g)), game |-> g, cuts |-> 0]
    ELSE Bind(moves(g), LAMBDA mv :
           IF Len(mv) = 0 THEN [val |-> evaluateMain(Ask(g)), game |-> g, cuts |-> 0]
           ELSE IF turn(g) = "w"
                THEN searchMainWhite(g, mv, 1, d, alpha, beta, -Infinity, 0)
                ELSE searchMainBlack(g, mv, 1, d, alpha, beta, Infinity, 0))

searchMainWhite(g, mv, i, d, alpha, beta, val, cuts) ==
    IF i > Len(mv) THEN [val |-> val, game |-> g, cuts |-> cuts]
    ELSE Bind(move(g, toShortMain(mv[i])), LAMBDA g1 :
         Bind(searchMain(g1, d - 1, alpha, beta), LAMBDA child :
         Bind(undo(child.game), LAMBDA g2 :
         Bind(Max(val, child.val), LAMBDA v :
         Bind(Max(alpha, v), LAMBDA a :
         Bind(cuts + child.cuts, LAMBDA c :
           IF a >= beta
           THEN [val |-> v, game |-> g2, cuts |-> IF i < Len(mv) THEN c + 1 ELSE c]
           ELSE searchMainWhite(g2, mv, i + 1, d, a, beta, v, c)))))))

searchMainBlack(g, mv, i, d, alpha, beta, val, cuts) ==
    IF i > Len(mv) THEN [val |-> val, game |-> g, cuts |-> cuts]
    ELSE Bind(move(g, toShortMain(mv[i])), LAMBDA g1 :
         Bind(searchMain(g1, d - 1, alpha, beta), LAMBDA child :
         Bind(undo(child.game), LAMBDA g2 :
         Bind(Min(val, child.val), LAMBDA v :
         Bind(Min(beta, v), LAMBDA b :
         Bind(cuts + child.cuts, LAMBDA c :
           IF alpha >= b
           THEN [val |-> v, game |-> g2, cuts |-> IF i < Len(mv) THEN c + 1 ELSE c]
           ELSE searchMainBlack(g2, mv, i + 1, d, alpha, b, v, c)))))))

(* The loop over the root moves: best, bestScore, the game object and the *)
(* breaks of the searches.                                                *)
RECURSIVE rootLoopMain(_, _, _, _, _, _, _, _)
rootLoopMain(g, root, i, depthLimit, aiWhite, best, bestScore, cuts) ==
    IF i > Len(root)
    THEN [best |-> best, bestScore |-> bestScore, game |-> g, cuts |-> cuts]
    ELSE Bind(move(g, toShortMain(root[i])), LAMBDA g1 :
         Bind(searchMain(g1, depthLimit - 1, -Infinity, Infinity), LAMBDA r :
         Bind(undo(r.game), LAMBDA g2 :
         Bind(r.val, LAMBDA v :
         Bind(cuts + r.cuts, LAMBDA c :
           IF (IF aiWhite THEN v > bestScore ELSE v < bestScore)
           THEN rootLoopMain(g2, root, i + 1, depthLimit, aiWhite, root[i], v, c)
           ELSE rootLoopMain(g2, root, i + 1, depthLimit, aiWhite, best, bestScore, c))))))

(* minimaxPickMain, with what it leaves behind: the move it returns, its   *)
(* bestScore, the game object and the breaks.                              *)
minimaxRunMain(g, depthLimit, aiColor) ==
    Bind(moves(g), LAMBDA root :
      IF Len(root) = 0
      THEN [move |-> null, bestScore |-> 0, game |-> g, cuts |-> 0]
      ELSE Bind(rootLoopMain(g, root, 1, depthLimit, aiColor = "w", null,
                         IF aiColor = "w" THEN -Infinity ELSE Infinity, 0),
                LAMBDA out :
                  [move |-> IF out.best # null THEN toShortMain(out.best) ELSE null,
                   bestScore |-> out.bestScore, game |-> out.game, cuts |-> out.cuts]))

minimaxPickMain(g, depthLimit, aiColor) == minimaxRunMain(g, depthLimit, aiColor).move

(* The first statements of doFallback: the move picked on the snapshot g. *)
fallbackRun(g, mode, depthLimit, aiColor, r) ==
    IF mode = "random"
    THEN [move |-> randomPick(g, r), bestScore |-> 0, game |-> g, cuts |-> 0]
    ELSE IF mode = "greedy"
    THEN [move |-> greedyPick(g, r), bestScore |-> 0, game |-> g, cuts |-> 0]
    ELSE minimaxRunMain(g, depthLimit, aiColor)

----------------------------------------------------------------------------
(* The positions a strategy is invoked on: the start position and those   *)
(* one ply after it.                                                      *)
StartNodes == {0} \cup { Child(0, i) : i \in 1 .. Len(At(0).moves) }

Modes == {"random", "greedy", "minimax"}
Colors == {"w", "b"}

(* The values Math.floor(Math.random() * n) can take. *)
RandomIndex(n) == IF n = 0 THEN {0} ELSE 0 .. (n - 1)

(* The values Math.random can give an invocation of a strategy on g:      *)
(* minimax does not call it.                                              *)
RandomDraws(mode, g) ==
    IF mode = "minimax" THEN {0} ELSE RandomIndex(movesLength(g))

NotRun == [state |-> "notrun"]
Ran(res) ==
    Bind(res, LAMBDA x : [state |-> "ran", move |-> x.move, bestScore |-> x.bestScore,
                          game |-> x.game, cuts |-> x.cuts])

CoordIdle ==
    /\ gameRef = NewGame
    /\ thinkingRef = FALSE
    /\ isThinking = FALSE
    /\ workerRef = "null"
    /\ reqIdRef = 0
    /\ playVsAI = TRUE
    /\ aiPlays = "black"
    /\ aiMode = "minimax"
    /\ depth = 3
    /\ timers = <<>>
    /\ toWorker = <<>>
    /\ toMain = <<>>
    /\ workerErr = <<>>
    /\ log = [last |-> [op |-> "init", req |-> 0], accepted |-> {}, fellBack |-> {},
              inputs |-> 0, snaps |-> <<>>]

EvalIdle == efacts = [none |-> TRUE] /\ ew = NotRun /\ ef = NotRun

----------------------------------------------------------------------------
(* PickSpec: one strategy invocation in the worker and one in the          *)
(* foreground, on the same request.                                        *)

PickInit ==
    /\ seed \in Seeds \cup MateSeeds
    /\ pin \in { [id |-> 1, fen |-> p, mode |-> m, depth |-> d, aiColor |-> c] :
                   p \in StartNodes, m \in Modes, d \in 1 .. MaxDepth, c \in Colors }
    /\ pw = NotRun
    /\ pf = NotRun
    /\ CoordIdle
    /\ EvalIdle

PickWorker ==
    /\ pw = NotRun
    /\ \E r \in RandomDraws(pin.mode, Load(pin.fen)) :
          pw' = Ran(workerRun(pin, r))
    /\ UNCHANGED <<seed, pin, pf, coordVars, evalVars>>

PickMain ==
    /\ pf = NotRun
    /\ \E r \in RandomDraws(pin.mode, Load(pin.fen)) :
          pf' = Ran(fallbackRun(Load(pin.fen), pin.mode, pin.depth, pin.aiColor, r))
    /\ UNCHANGED <<seed, pin, pw, coordVars, evalVars>>

PickNext == PickWorker \/ PickMain

PickSpec == PickInit /\ [][PickNext]_vars

----------------------------------------------------------------------------
(* EvalSpec: one evaluation in the worker and one in the foreground, on    *)
(* the answers chess.js can give about a position: any board of the tree,  *)
(* either side to move, 0..MaxLegal legal moves, in check or not, and one  *)
(* of the draw conditions or none.  chess.js ties the answers together:    *)
(* checkmate is check without legal moves, stalemate is no check and no    *)
(* legal move, isDraw holds for stalemate and for each draw condition.     *)

DrawKinds == {"none", "fifty", "insufficient", "threefold"}

Answers(b, t, n, chk, kind) ==
    [ board |-> b,
      turn |-> t,
      legal |-> n,
      inCheck |-> chk,
      isCheckmate |-> chk /\ n = 0,
      isDraw |-> kind # "none" \/ (~chk /\ n = 0),
      isStalemate |-> ~chk /\ n = 0,
      isInsufficientMaterial |-> kind = "insufficient",
      isThreefoldRepetition |-> kind = "threefold" ]

EvalInit ==
    /\ seed \in Seeds
    /\ efacts \in { Answers(At(p).board, t, n, chk, kind) :
                      p \in StartNodes, t \in Colors, n \in 0 .. MaxLegal,
                      chk \in BOOLEAN, kind \in DrawKinds }
    /\ ew = NotRun
    /\ ef = NotRun
    /\ pin = [none |-> TRUE]
    /\ pw = NotRun
    /\ pf = NotRun
    /\ CoordIdle

EvalWorker ==
    /\ ew = NotRun
    /\ ew' = [state |-> "ran", val |-> evaluate(efacts)]
    /\ UNCHANGED <<seed, efacts, ef, coordVars, pickVars>>

EvalMain ==
    /\ ef = NotRun
    /\ ef' = [state |-> "ran", val |-> evaluateMain(efacts)]
    /\ UNCHANGED <<seed, efacts, ew, coordVars, pickVars>>

EvalNext == EvalWorker \/ EvalMain

EvalSpec == EvalInit /\ [][EvalNext]_vars

----------------------------------------------------------------------------
(* The coordinator: the App component of src/App.tsx.                      *)
(*                                                                         *)
(* A timer is the closure setTimeout holds: the snapshot g and the         *)
(* settings of the request that armed it; req (history) is the id of that  *)
(* request.  Timers fire in the order they were armed: those of a run all  *)
(* have the same delay.  An event handler runs to its end in one step.     *)

AiTurn(plays) == IF plays = "white" THEN "w" ELSE "b"

IsStaleNever(id) == FALSE

(* w.onmessage, line 123: the response is not the current request's. *)
IsStale(id) == id # reqIdRef

(* gameRef.current.move(move) of onmessage and doFallback, when move is    *)
(* not null; a move that is not legal leaves the game as it is.            *)
ApplyAiMove(game, mo) == IF mo # null THEN move(game, mo) ELSE game

(* requestAiMoveWithFallback, called with the game and the settings of the *)
(* render the handler belongs to.                                          *)
RequestAiMoveWithFallback(game, plays, mode, dep) ==
    LET aiColor == AiTurn(plays)
        g == Load(Fen(game))
        closure == [g |-> g, mode |-> mode, depth |-> dep, aiColor |-> aiColor]
    IN  IF workerRef = "null"
        THEN /\ timers' = Append(timers, [kind |-> "zero", req |-> 0, c |-> closure])
             /\ UNCHANGED <<reqIdRef, toWorker>>
        ELSE /\ reqIdRef' = reqIdRef + 1
             /\ toWorker' = Append(toWorker,
                    [id |-> reqIdRef + 1, fen |-> Fen(g), mode |-> mode,
                     depth |-> dep, aiColor |-> aiColor])
             /\ timers' = Append(timers,
                    [kind |-> "deadline", req |-> reqIdRef + 1, c |-> closure])

(* maybeAIMove without its test of the side to move. *)
WillRequestAnyTurn(game, pv, plays) ==
    /\ pv
    /\ ~isGameOver(game)
    /\ ~thinkingRef

(* Whether maybeAIMove goes on to request a move. *)
WillRequest(game, pv, plays) ==
    /\ pv
    /\ ~isGameOver(game)
    /\ turn(game) = AiTurn(plays)
    /\ ~thinkingRef

(* maybeAIMove, called at the end of a handler that leaves game and the    *)
(* settings pv, plays, mode, dep.                                          *)
MaybeAIMove(game, pv, plays, mode, dep) ==
    IF WillRequest(game, pv, plays)
    THEN /\ thinkingRef' = TRUE
         /\ isThinking' = TRUE
         /\ RequestAiMoveWithFallback(game, plays, mode, dep)
    ELSE UNCHANGED <<thinkingRef, isThinking, reqIdRef, toWorker, timers>>

Logged(op, req) == [log EXCEPT !.last = [op |-> op, req |-> req]]

(* The user makes at most MaxInputs inputs. *)
(* The history also keeps the position each request to the worker was     *)
(* posted with, by request id.                                             *)
Input ==
    [log EXCEPT !.last = [op |-> "user", req |-> 0], !.inputs = @ + 1,
                !.snaps = IF reqIdRef' # reqIdRef
                          THEN Append(@, toWorker'[Len(toWorker')].fen) ELSE @]

(* onDrop: the human drags the piece of the i-th legal move; the drop is   *)
(* always sent with promotion 'q'.                                         *)
OnDrop(i) ==
    /\ ~isThinking
    /\ i \in 1 .. movesLength(gameRef)
    /\ LET mo == [from |-> moves(gameRef)[i].from, to |-> moves(gameRef)[i].to,
                  promotion |-> "q"]
           game == move(gameRef, mo)
       IN  /\ MoveOk(gameRef, mo)
           /\ gameRef' = game
           /\ MaybeAIMove(game, playVsAI, aiPlays, aiMode, depth)
    /\ log.inputs < MaxInputs
    /\ log' = Input
    /\ UNCHANGED <<seed, workerRef, playVsAI, aiPlays, aiMode, depth, toMain,
                   workerErr, pickVars, evalVars>>

(* resetGame: the New Game button. *)
ResetGame ==
    /\ gameRef' = NewGame
    /\ MaybeAIMove(NewGame, playVsAI, aiPlays, aiMode, depth)
    /\ log.inputs < MaxInputs
    /\ log' = Input
    /\ UNCHANGED <<seed, workerRef, playVsAI, aiPlays, aiMode, depth, toMain,
                   workerErr, pickVars, evalVars>>

(* The Mode button, and the effect on [playVsAI, aiPlays, aiMode, depth]. *)
TogglePlayVsAI ==
    /\ playVsAI' = ~playVsAI
    /\ MaybeAIMove(gameRef, ~playVsAI, aiPlays, aiMode, depth)
    /\ log.inputs < MaxInputs
    /\ log' = Input
    /\ UNCHANGED <<seed, gameRef, workerRef, aiPlays, aiMode, depth, toMain,
                   workerErr, pickVars, evalVars>>

(* The "AI plays" button, and the effect. *)
ToggleAiPlays ==
    /\ playVsAI
    /\ LET plays == IF aiPlays = "black" THEN "white" ELSE "black"
       IN  /\ aiPlays' = plays
           /\ MaybeAIMove(gameRef, playVsAI, plays, aiMode, depth)
    /\ log.inputs < MaxInputs
    /\ log' = Input
    /\ UNCHANGED <<seed, gameRef, workerRef, playVsAI, aiMode, depth, toMain,
                   workerErr, pickVars, evalVars>>

(* The "AI mode" button, and the effect. *)
CycleAiMode ==
    /\ playVsAI
    /\ LET mode == IF aiMode = "minimax" THEN "greedy"
                   ELSE IF aiMode = "greedy" THEN "random" ELSE "minimax"
       IN  /\ aiMode' = mode
           /\ MaybeAIMove(gameRef, playVsAI, aiPlays, mode, depth)
    /\ log.inputs < MaxInputs
    /\ log' = Input
    /\ UNCHANGED <<seed, gameRef, workerRef, playVsAI, aiPlays, depth, toMain,
                   workerErr, pickVars, evalVars>>

DepthOptions == {2, 3, 4}

(* The depth select, and the effect. *)
SetDepth(d) ==
    /\ playVsAI /\ aiMode = "minimax"
    /\ d \in DepthOptions /\ d # depth
    /\ depth' = d
    /\ MaybeAIMove(gameRef, playVsAI, aiPlays, aiMode, d)
    /\ log.inputs < MaxInputs
    /\ log' = Input
    /\ UNCHANGED <<seed, gameRef, workerRef, playVsAI, aiPlays, aiMode, toMain,
                   workerErr, pickVars, evalVars>>

(* The worker handles the oldest request and posts its response. *)
WorkerHandle ==
    /\ toWorker # <<>>
    /\ \E r \in RandomDraws(Head(toWorker).mode, Load(Head(toWorker).fen)) :
          toMain' = Append(toMain, workerOnMessage(Head(toWorker), r))
    /\ toWorker' = Tail(toWorker)
    /\ UNCHANGED <<seed, gameRef, thinkingRef, isThinking, workerRef, reqIdRef,
                   playVsAI, aiPlays, aiMode, depth, timers, workerErr, log,
                   pickVars, evalVars>>

(* The worker fails on the oldest request: an error event instead of a     *)
(* response.                                                               *)
WorkerFail ==
    /\ toWorker # <<>>
    /\ workerErr' = Append(workerErr, Head(toWorker).id)
    /\ toWorker' = Tail(toWorker)
    /\ UNCHANGED <<seed, gameRef, thinkingRef, isThinking, workerRef, reqIdRef,
                   playVsAI, aiPlays, aiMode, depth, timers, toMain, log,
                   pickVars, evalVars>>

(* w.onmessage. *)
OnMessage ==
    /\ toMain # <<>>
    /\ toMain' = Tail(toMain)
    /\ LET res == Head(toMain)
       IN  IF IsStale(res.id)
           THEN /\ log' = Logged("stale", res.id)
                /\ UNCHANGED <<gameRef, thinkingRef, isThinking>>
           ELSE /\ gameRef' = ApplyAiMove(gameRef, res.move)
                /\ isThinking' = FALSE
                /\ thinkingRef' = FALSE
                /\ log' = [log EXCEPT !.last = [op |-> "accept", req |-> res.id],
                                      !.accepted = @ \cup {res.id}]
    /\ UNCHANGED <<seed, workerRef, reqIdRef, playVsAI, aiPlays, aiMode, depth,
                   timers, toWorker, workerErr, pickVars, evalVars>>

(* w.onerror. *)
OnError ==
    /\ workerErr # <<>>
    /\ workerErr' = Tail(workerErr)
    /\ isThinking' = FALSE
    /\ thinkingRef' = FALSE
    /\ log' = Logged("error", Head(workerErr))
    /\ UNCHANGED <<seed, gameRef, workerRef, reqIdRef, playVsAI, aiPlays, aiMode,
                   depth, timers, toWorker, toMain, pickVars, evalVars>>

(* doFallback without its last two statements. *)
DoFallbackKeepsThinking(c, r) ==
    /\ gameRef' = ApplyAiMove(gameRef, fallbackRun(c.g, c.mode, c.depth, c.aiColor, r).move)
    /\ UNCHANGED <<isThinking, thinkingRef>>

(* doFallback of the request whose closure is c, with the random index r. *)
DoFallback(c, r) ==
    /\ gameRef' = ApplyAiMove(gameRef, fallbackRun(c.g, c.mode, c.depth, c.aiColor, r).move)
    /\ isThinking' = FALSE
    /\ thinkingRef' = FALSE

(* The oldest timer fires and its callback returns at once. *)
TimerFireReturns ==
    /\ timers # <<>>
    /\ timers' = Tail(timers)
    /\ log' = Logged("expired", Head(timers).req)
    /\ UNCHANGED <<seed, gameRef, thinkingRef, isThinking, workerRef, reqIdRef,
                   playVsAI, aiPlays, aiMode, depth, toWorker, toMain, workerErr,
                   pickVars, evalVars>>

(* The oldest timer fires: the 2.5 s timer of a request to the worker, or  *)
(* the setTimeout(doFallback, 0) of a request without worker.              *)
TimerFire ==
    /\ timers # <<>>
    /\ timers' = Tail(timers)
    /\ LET t == Head(timers)
       IN  IF t.kind = "deadline" /\ ~thinkingRef
           THEN /\ log' = Logged("expired", t.req)
                /\ UNCHANGED <<gameRef, thinkingRef, isThinking>>
           ELSE /\ \E r \in RandomDraws(t.c.mode, t.c.g) : DoFallback(t.c, r)
                /\ log' = [log EXCEPT !.last = [op |-> "fallback", req |-> t.req],
                                      !.fellBack = @ \cup {t.req}]
    /\ UNCHANGED <<seed, workerRef, reqIdRef, playVsAI, aiPlays, aiMode, depth,
                   toWorker, toMain, workerErr, pickVars, evalVars>>

(* The component is mounted: new Worker(...) succeeded or threw; the game  *)
(* is new, White to move, and the AI plays Black.                          *)
Init ==
    /\ seed \in 0 .. MaxGames
    /\ gameRef = NewGame
    /\ thinkingRef = FALSE
    /\ isThinking = FALSE
    /\ workerRef \in {"worker", "null"}
    /\ reqIdRef = 0
    /\ playVsAI = TRUE
    /\ aiPlays = "black"
    /\ aiMode = "minimax"
    /\ depth = 3
    /\ timers = <<>>
    /\ toWorker = <<>>
    /\ toMain = <<>>
    /\ workerErr = <<>>
    /\ log = [last |-> [op |-> "init", req |-> 0], accepted |-> {}, fellBack |-> {},
              inputs |-> 0, snaps |-> <<>>]
    /\ pin = [none |-> TRUE]
    /\ pw = NotRun
    /\ pf = NotRun
    /\ EvalIdle

Next ==
    \/ \E i \in 1 .. MaxMoves : OnDrop(i)
    \/ ResetGame
    \/ TogglePlayVsAI
    \/ ToggleAiPlays
    \/ CycleAiMode
    \/ \E d \in DepthOptions : SetDepth(d)
    \/ WorkerHandle
    \/ WorkerFail
    \/ OnMessage
    \/ OnError
    \/ TimerFire

Spec == Init /\ [][Next]_vars

(* The step of a timer callback: the oldest timer fires. *)
TimerStep == timers # <<>> /\ timers' = Tail(timers)

(* The event loop runs what is due: a timer that was armed fires, and a    *)
(* message or an error event that was delivered is handled.  Nothing makes *)
(* the worker answer, or the user act.  TimerFire is the only action that  *)
(* shortens timers and it is enabled exactly when a timer is pending, so   *)
(* its fairness is stated on TimerStep, the part of it that takes the      *)
(* timer off the queue.                                                    *)
LiveSpec ==
    Spec /\ WF_timers(TimerStep) /\ WF_vars(OnMessage) /\ WF_vars(OnError)

----------------------------------------------------------------------------
(* The strategy invocations PickSpec compares. *)

PickGame == Load(pin.fen)
PickRuns == { run \in {pw, pf} : run.state = "ran" }

(* The short move mo is the legal move m: its from, its to and, for a      *)
(* promotion alone, its promotion.                                         *)
IsShortOf(mo, m) ==
    /\ mo # null
    /\ mo.from = m.from /\ mo.to = m.to
    /\ IF m.promotion = "none" THEN "promotion" \notin DOMAIN mo
       ELSE "promotion" \in DOMAIN mo /\ mo.promotion = m.promotion

(* Plain minimax, no window: the value of the position d plies deep. *)
RECURSIVE PlainValue(_, _)
PlainValue(g, d) ==
    Bind(moves(g), LAMBDA mv :
      IF d = 0 \/ isGameOver(g) \/ Len(mv) = 0 THEN evaluate(Ask(g))
      ELSE Bind([i \in 1 .. Len(mv) |-> PlainValue(move(g, toShort(mv[i])), d - 1)],
                LAMBDA vs :
                  IF turn(g) = "w"
                  THEN CHOOSE v \in { vs[i] : i \in 1 .. Len(mv) } :
                         \A i \in 1 .. Len(mv) : v >= vs[i]
                  ELSE CHOOSE v \in { vs[i] : i \in 1 .. Len(mv) } :
                         \A i \in 1 .. Len(mv) : v <= vs[i]))

(* The root choice of plain minimax: the first move whose value no other   *)
(* move beats in the direction of aiColor.                                 *)
PlainPick(g, depthLimit, aiColor) ==
    Bind(moves(g), LAMBDA root :
    Bind([i \in 1 .. Len(root) |-> PlainValue(move(g, toShort(root[i])), depthLimit - 1)],
         LAMBDA vs :
    Bind(CHOOSE i \in 1 .. Len(root) :
           /\ \A j \in 1 .. Len(root) :
                IF aiColor = "w" THEN vs[i] >= vs[j] ELSE vs[i] <= vs[j]
           /\ \A j \in 1 .. (i - 1) : vs[j] # vs[i],
         LAMBDA i : [move |-> root[i], score |-> vs[i]])))

(* C1: alpha-beta equals plain minimax.  Whenever minimaxPick (worker) or  *)
(* minimaxPickMain (foreground) has run on a position with a legal move,   *)
(* the move it returns and its bestScore are the move and the score of     *)
(* plain minimax of the same depth, with first-encountered tie-breaking.   *)
Thm_C1_AlphaBetaEqualsPlain ==
    \A run \in PickRuns :
        (pin.mode = "minimax" /\ Len(moves(PickGame)) > 0) =>
            Bind(PlainPick(PickGame, pin.depth, pin.aiColor), LAMBDA plain :
                /\ IsShortOf(run.move, plain.move)
                /\ run.bestScore = plain.score)

(* A minimax run of full depth in which some loop was left by break. *)
Wit_C1_Pruned ==
    /\ pw.state = "ran" /\ pf.state = "ran"
    /\ pin.mode = "minimax" /\ pin.depth = MaxDepth
    /\ pw.cuts > 0 /\ pf.cuts > 0
    /\ Len(moves(PickGame)) >= 2
    /\ pw.bestScore # 0

(* C2: legality.  Whenever a strategy has run on a position with a legal   *)
(* move, it returned a move, and that move is the short form of one of the *)
(* legal moves of the position.                                            *)
Thm_C2_Legality ==
    \A run \in PickRuns :
        Len(moves(PickGame)) > 0 =>
            /\ run.move # null
            /\ \E i \in 1 .. Len(moves(PickGame)) : IsShortOf(run.move, moves(PickGame)[i])

(* The random picker returned a promotion that is not the first legal move. *)
Wit_C2_Promotion ==
    /\ pw.state = "ran" /\ pin.mode = "random"
    /\ pw.move # null /\ "promotion" \in DOMAIN pw.move
    /\ ~IsShortOf(pw.move, moves(PickGame)[1])

(* C3: snapshot restoration.  When a strategy invocation has returned, the *)
(* game object is the one it was given: the same position and nothing left *)
(* on the stack of applied moves.                                          *)
Thm_C3_SnapshotRestored ==
    \A run \in PickRuns :
        /\ run.game = PickGame
        /\ run.game.stack = <<>>

(* A minimax run that applied moves three plies deep and left a loop by    *)
(* break in the foreground copy.                                           *)
Wit_C3_AfterCutoff ==
    /\ pf.state = "ran" /\ pin.mode = "minimax" /\ pin.depth >= 3
    /\ pf.cuts > 1
    /\ pf.game = PickGame
    /\ \E i \in 1 .. Len(moves(PickGame)) :
          Len(moves(move(PickGame, toShortMain(moves(PickGame)[i])))) > 0

(* C8 as claimed: the worker's move and the foreground's move on the same  *)
(* request are identical, for the three strategies.                       *)
Orig_C8_SameMoveAllModes ==
    (pw.state = "ran" /\ pf.state = "ran") => pw.move = pf.move

(* C8, amended: greedy and minimax return the same move in the worker and  *)
(* in the foreground; random, which draws Math.random on each side,        *)
(* returns a move on both sides or on neither.                             *)
Thm_C8_SameMoveDeterministic ==
    (pw.state = "ran" /\ pf.state = "ran") =>
        IF pin.mode = "random" THEN (pw.move = null) <=> (pf.move = null)
        ELSE pw.move = pf.move

(* Both sides ran minimax at full depth on a position with a choice. *)
Wit_C8_BothRan ==
    /\ pw.state = "ran" /\ pf.state = "ran"
    /\ pin.mode = "minimax" /\ pin.depth = MaxDepth
    /\ Len(moves(PickGame)) >= 2
    /\ pw.move = pf.move /\ pw.move # null
    /\ inCheck(PickGame)

(* C9 as claimed: on a position where isGameOver holds every strategy      *)
(* returns no move.                                                        *)
Orig_C9_GameOverNoMove ==
    \A run \in PickRuns : isGameOver(PickGame) => run.move = null

(* C9, amended: every strategy returns no move on a position without legal *)
(* moves (checkmate, stalemate); on a position that is over by a draw that *)
(* leaves legal moves it returns one of them.                              *)
Thm_C9_NoLegalMoveNoMove ==
    \A run \in PickRuns :
        /\ Len(moves(PickGame)) = 0 => run.move = null
        /\ (isGameOver(PickGame) /\ Len(moves(PickGame)) > 0) =>
              \E i \in 1 .. Len(moves(PickGame)) : IsShortOf(run.move, moves(PickGame)[i])

(* Both sides ran on a checkmate and returned no move. *)
Wit_C9_Checkmate ==
    /\ pw.state = "ran" /\ pf.state = "ran"
    /\ isCheckmate(PickGame)
    /\ pw.move = null /\ pf.move = null

(* The evaluator as the design states it. *)
RefValue == [p |-> 100, n |-> 320, b |-> 330, r |-> 500, q |-> 900, k |-> 0]

RefCount(b, t, c) == Cardinality({ i \in DOMAIN b : b[i].type = t /\ b[i].color = c })

RECURSIVE RefMaterial(_, _)
RefMaterial(b, k) ==
    IF k = 0 THEN 0
    ELSE RefMaterial(b, k - 1)
         + RefValue[PieceTypes[k]] * (RefCount(b, PieceTypes[k], "w")
                                      - RefCount(b, PieceTypes[k], "b"))

RefEval(q) ==
    LET side == IF q.turn = "w" THEN 1 ELSE -1
        capped == IF q.legal < 30 THEN q.legal ELSE 30
    IN  CASE q.isCheckmate /\ q.turn = "w" -> -(10 ^ 9)
          [] q.isCheckmate /\ q.turn = "b" -> 10 ^ 9
          [] ~q.isCheckmate /\ (q.isDraw \/ q.isStalemate) -> 0
          [] OTHER -> RefMaterial(q.board, Len(PieceTypes)) + side * capped
                      - (IF q.inCheck THEN side * 15 ELSE 0)

(* C10: evaluate (worker) and evaluate (foreground) equal the reference    *)
(* evaluator: -10^9 / +10^9 on checkmate of White / Black, 0 on a draw or  *)
(* stalemate that is not checkmate, else material plus min(legal, 30) for  *)
(* the side to move minus 15 for it when it is in check.                   *)
Thm_C10_EvaluateIsReference ==
    /\ ew.state = "ran" => ew.val = RefEval(efacts)
    /\ ef.state = "ran" => ef.val = RefEval(efacts)

(* An evaluation with more than 30 legal moves, Black to move and in check, *)
(* pieces on the board and no draw.                                        *)
Wit_C10_CappedInCheck ==
    /\ ew.state = "ran" /\ ef.state = "ran"
    /\ efacts.legal > MobilityCap /\ efacts.inCheck /\ efacts.turn = "b"
    /\ ~efacts.isDraw
    /\ \E i \in DOMAIN efacts.board : efacts.board[i].type = "q"
    /\ ew.val # 0

----------------------------------------------------------------------------
(* Claims about the coordinator.                                           *)

(* The step of w.onmessage on the response at the head of toMain. *)
MessageStep == toMain # <<>> /\ toMain' = Tail(toMain)

(* The step of w.onerror on the error at the head of workerErr. *)
ErrorStep == workerErr # <<>> /\ workerErr' = Tail(workerErr)

(* C4: handling a response whose id differs from the current request id    *)
(* leaves the authoritative game, the thinking flag, the current request   *)
(* id and the pending timers unchanged: its move is not applied.           *)
Thm_C4_StaleDiscarded ==
    [][ (MessageStep /\ Head(toMain).id # reqIdRef)
          => UNCHANGED <<gameRef, thinkingRef, isThinking, reqIdRef, timers>> ]_vars

(* A response carrying a move was discarded as stale while a newer request *)
(* was outstanding.                                                        *)
Wit_C4_StaleWhileThinking ==
    /\ log.last.op = "stale"
    /\ log.last.req < reqIdRef
    /\ thinkingRef
    /\ timers # <<>>

(* C5: when the worker raises an error for the outstanding request and the *)
(* position has a legal move, the coordinator does not go back to Idle     *)
(* with the game as it was: the fallback has applied a move.               *)
Orig_C5_ErrorRunsFallback ==
    [][ ( /\ ErrorStep
          /\ Head(workerErr) = reqIdRef
          /\ thinkingRef
          /\ ~isGameOver(gameRef)
          /\ turn(gameRef) = AiTurn(aiPlays) )
          => ~(thinkingRef' = FALSE /\ gameRef' = gameRef) ]_vars

(* C6: a response to a request whose deadline fallback has executed does   *)
(* not carry the current request id.                                       *)
Orig_C6_LateResponseIsStale ==
    \A i \in DOMAIN toMain :
        toMain[i].id \in log.fellBack => toMain[i].id # reqIdRef

(* C7: the timer of a request whose response has been accepted never runs  *)
(* the fallback.                                                           *)
Orig_C7_AcceptClearsTimer ==
    log.last.op = "fallback" => log.last.req \notin log.accepted

----------------------------------------------------------------------------
(* Claims about the greedy strategy.                                       *)

PickMoves == moves(PickGame)

(* The legal moves that capture a knight, a bishop, a rook or a queen. *)
BigCaptures == { i \in 1 .. Len(PickMoves) : PickMoves[i].captured \in {"n", "b", "r", "q"} }

(* No legal move's notation marks check or mate. *)
NoCheckMarks ==
    \A i \in 1 .. Len(PickMoves) : \A k \in 1 .. Len(PickMoves[i].san) :
        PickMoves[i].san[k] \notin {"+", "#"}

(* C11: when exactly one legal move captures a piece of value >= 300 and   *)
(* no notation marks check or mate, greedy returns that capturing move,    *)
(* whatever the capturing piece and wherever the move stands in the list.  *)
Orig_C11_GreedyTakesBigCapture ==
    \A run \in PickRuns :
        (pin.mode = "greedy" /\ Cardinality(BigCaptures) = 1 /\ NoCheckMarks) =>
            \A i \in BigCaptures : IsShortOf(run.move, PickMoves[i])

----------------------------------------------------------------------------
(* Claims about minimax.                                                   *)

(* The legal moves that deliver checkmate. *)
MatingMoves ==
    { i \in 1 .. Len(PickMoves) : isCheckmate(move(PickGame, toShort(PickMoves[i]))) }

(* C12: with White to move, aiColor White and exactly one legal move that  *)
(* delivers checkmate, minimax of every depth returns that move with       *)
(* bestScore +10^9.                                                        *)
Orig_C12_MinimaxPlaysTheMate ==
    \A run \in PickRuns :
        ( /\ pin.mode = "minimax"
          /\ turn(PickGame) = "w" /\ pin.aiColor = "w"
          /\ Cardinality(MatingMoves) = 1 ) =>
            /\ run.bestScore = MATE
            /\ \A i \in MatingMoves : IsShortOf(run.move, PickMoves[i])

----------------------------------------------------------------------------
(* Claims about requests and snapshots.                                    *)

(* C13: single-flight.  At most one request posted to the worker is not    *)
(* yet answered by the worker.                                             *)
Orig_C13_SingleFlight == Len(toWorker) <= 1

(* C14: the outcome of a request is applied to the position its snapshot   *)
(* was taken of: an accepted response carrying a move meets the position   *)
(* its request was posted with, and a fallback runs on a snapshot equal to *)
(* the authoritative position.                                             *)
Orig_C14_SnapshotIsCurrent ==
    [][ /\ (MessageStep /\ Head(toMain).id = reqIdRef /\ Head(toMain).move # null)
             => log.snaps[Head(toMain).id] = Fen(gameRef)
        /\ (TimerStep /\ (Head(timers).kind = "zero" \/ thinkingRef))
             => Fen(Head(timers).c.g) = Fen(gameRef) ]_vars

----------------------------------------------------------------------------
(* Claims about the path without worker.                                   *)

(* C15: without a worker no message is posted, the request id is never     *)
(* advanced and no deadline timer is armed; a request leaves exactly one   *)
(* setTimeout(doFallback, 0) pending while the thinking flag is set, and   *)
(* the fallback it runs clears the flag.                                   *)
Thm_C15_NoWorkerFallsBack ==
    workerRef = "null" =>
        /\ toWorker = <<>> /\ toMain = <<>> /\ workerErr = <<>>
        /\ reqIdRef = 0
        /\ \A i \in DOMAIN timers : timers[i].kind = "zero"
        /\ Len(timers) = IF thinkingRef THEN 1 ELSE 0
        /\ isThinking = thinkingRef
        /\ log.last.op \in {"init", "user", "fallback"}
        /\ log.last.op = "fallback" => ~thinkingRef

(* Without a worker, the fallback has applied the AI's reply to the        *)
(* human's move and the coordinator is idle.                               *)
Wit_C15_FallbackMoved ==
    /\ workerRef = "null"
    /\ log.last.op = "fallback"
    /\ Len(gameRef.stack) = 2
    /\ ~thinkingRef /\ timers = <<>>

----------------------------------------------------------------------------
(* The one-ply score of the greedy strategy, as the claim states it. *)
RefScore(m) ==
    (IF m.captured = "none" THEN 0 ELSE RefValue[m.captured] - RefValue[m.piece] + 1)
    + (IF \E k \in 1 .. Len(m.san) : m.san[k] = "#" THEN 1000000000
       ELSE IF \E k \in 1 .. Len(m.san) : m.san[k] = "+" THEN 5 ELSE 0)

(* The first move in enumeration order whose score is the maximum. *)
FirstBest ==
    CHOOSE i \in 1 .. Len(PickMoves) :
        /\ \A j \in 1 .. Len(PickMoves) : RefScore(PickMoves[j]) <= RefScore(PickMoves[i])
        /\ \A j \in 1 .. (i - 1) : RefScore(PickMoves[j]) < RefScore(PickMoves[i])

(* C16: on a non-empty list of legal moves greedy returns the first move   *)
(* whose one-ply score is the maximum, whatever Math.random would give:    *)
(* the loop always leaves best set, in the worker and in the foreground.   *)
Thm_C16_GreedyFirstMaximum ==
    (pin.mode = "greedy" /\ Len(PickMoves) > 0) =>
        /\ \A run \in PickRuns : IsShortOf(run.move, PickMoves[FirstBest])
        /\ greedyLoop(PickMoves, 1, null, NegSentinel) # null
        /\ greedyLoopMain(PickMoves, 1, null, NegSentinel) # null

(* Greedy ran on both sides on a position with three legal moves where the *)
(* maximum score is met by two moves.                                      *)
Wit_C16_TiedMaximum ==
    /\ pw.state = "ran" /\ pf.state = "ran" /\ pin.mode = "greedy"
    /\ Len(PickMoves) >= 3
    /\ \E j \in (FirstBest + 1) .. Len(PickMoves) :
          RefScore(PickMoves[j]) = RefScore(PickMoves[FirstBest])

----------------------------------------------------------------------------
(* C17: whenever the thinking flag is set, it is eventually cleared: by    *)
(* the matching response, by the deadline, by the worker's error or by the *)
(* fallback without worker.                                                *)
Thm_C17_ThinkingIsCleared == thinkingRef ~> ~thinkingRef

(* The worker never answered the current request and its deadline brought  *)
(* the coordinator back to Idle.                                           *)
Wit_C17_DeadlineCleared ==
    /\ reqIdRef >= 1 /\ toWorker # <<>> /\ Head(toWorker).id = reqIdRef
    /\ log.last = [op |-> "fallback", req |-> reqIdRef]
    /\ ~thinkingRef /\ ~isThinking

----------------------------------------------------------------------------
(* C18: the aiColor of every strategy invocation the coordinator starts is *)
(* the side to move of the snapshot it searches: in every request waiting  *)
(* at the worker and in the closure of every pending timer, also the timer *)
(* of an earlier request.                                                  *)
Thm_C18_AiColorIsSideToMove ==
    /\ \A i \in DOMAIN toWorker : toWorker[i].aiColor = turn(Load(toWorker[i].fen))
    /\ \A i \in DOMAIN timers : timers[i].c.aiColor = turn(timers[i].c.g)

(* A minimax request waits at the worker while the timer of an earlier     *)
(* request, taken on another position, is still pending.                   *)
Wit_C18_EarlierTimerPending ==
    /\ Len(timers) = 2 /\ timers[1].req < timers[2].req
    /\ timers[1].c.g # timers[2].c.g
    /\ toWorker # <<>> /\ Head(toWorker).id = timers[2].req
    /\ Head(toWorker).mode = "minimax"
    /\ thinkingRef

============================================================================
